---------------------------- MODULE Spec2Model ----------------------------
(***************************************************************************)
(* Model of the example programs of curso_patrones_cpp (ejercicios,        *)
(* modulo2 and modulo4).  Every program is a single-threaded main; the     *)
(* programs share nothing, so a behaviour runs exactly one of them, chosen *)
(* in Init (prog).  modo = "main" runs the program with the literals of    *)
(* its source; modo = "general" runs the same statements with the literals *)
(* replaced by values drawn from bounded sets, which is how the classes    *)
(* and functions are exercised on inputs other than main's.                *)
(*                                                                         *)
(* out is the character stream written to std::cout.  mem holds the locals *)
(* and objects of the running program under their source names.  hist is a *)
(* history variable: the calls made so far (it is written, never read, by  *)
(* the program's actions).                                                 *)
(***************************************************************************)
EXTENDS Integers, Sequences, FiniteSets

VARIABLES prog, modo, pc, out, mem, hist

vars == <<prog, modo, pc, out, mem, hist>>

(***************************************************************************)
(* Bounds of the model.                                                    *)
(***************************************************************************)
MaxMensajes == 2      \* longest drawn message list (general mode)
MaxLlamadas == 1      \* extra mostrarFiltrados calls after main's two
MaxNumeros == 2       \* longest drawn number list (general mode)
MaxObjetos == 2       \* longest drawn collection of polymorphic objects

(***************************************************************************)
(* The C++ int of the build: 32 bits, two's complement.                    *)
(***************************************************************************)
INT_MAX == (2^30 - 1) + 2^30
INT_MIN == (-INT_MAX) - 1

NL == "\n"
Nada == [nada |-> TRUE]   \* a variable that holds no object or value (yet)

(* What an operation with undefined behaviour may leave in an int. *)
UBInts == {INT_MIN, -1, 0, 1, INT_MAX}

Abs(n) == IF n < 0 THEN -n ELSE n

(***************************************************************************)
(* std::ostream << int : the decimal digits, '-' first for a negative.     *)
(***************************************************************************)
Digito(d) == SubSeq("0123456789", d + 1, d + 1)

RECURSIVE Cifras(_)
Cifras(n) ==   \* n <= 0; the digits of -n, most significant first
    LET d == (10 - (n % 10)) % 10      \* last digit of -n
        q == (n + d) \div 10           \* n / 10 truncated toward zero
    IN  IF q = 0 THEN Digito(d) ELSE Cifras(q) \o Digito(d)

Decimal(n) == IF n < 0 THEN "-" \o Cifras(n) ELSE Cifras(-n)

(***************************************************************************)
(* std::string::find(p): the lowest position (from 0) at which p occurs,   *)
(* npos when it occurs nowhere.                                            *)
(***************************************************************************)
npos == -1

Ocurre(s, p, k) == k + Len(p) <= Len(s) /\ SubSeq(s, k + 1, k + Len(p)) = p

Find(s, p) ==
    IF \E k \in 0..Len(s) : Ocurre(s, p, k)
    THEN CHOOSE k \in 0..Len(s) :
             Ocurre(s, p, k) /\ \A j \in 0..(k - 1) : ~Ocurre(s, p, j)
    ELSE npos

(***************************************************************************)
(* modulo2/ejercicio2.cpp : FiltroMensajes                                 *)
(***************************************************************************)
(* TLC keeps only 7-bit characters of a string intact.  An accented letter  *)
(* of a literal of the source is written here as the letter followed by an *)
(* apostrophe: two characters, as it is two bytes in the UTF-8 source, so  *)
(* lengths and positions are those of the std::string.                     *)
MensajesMain ==
    << "Error: conexio'n fallida",
       "Aviso: bateri'a baja",
       "Info: actualizacio'n completada",
       "Error: disco lleno",
       "Info: sesio'n iniciada" >>

UniversoMensajes ==
    {MensajesMain[k] : k \in 1..Len(MensajesMain)} \cup {"Aviso: Error leve"}

(* The two closures of main, as functions of the message. *)
LambdaError(msg) == Find(msg, "Error") = 0
LambdaInfo(msg) == Find(msg, "Info") = 0

FiltroError == [m \in UniversoMensajes |-> LambdaError(m)]
FiltroInfo == [m \in UniversoMensajes |-> LambdaInfo(m)]
FiltroLargo == [m \in UniversoMensajes |-> Len(m) > 20]

Filtros == {FiltroError, FiltroInfo, FiltroLargo}

ListasHasta(S, n) == UNION {[1..k -> S] : k \in 0..n}

(* Mutant: main passes std::move(mensajes); the caller is left with an empty list. *)
PasoPorMovimiento(v) == [arg |-> v, origen |-> <<>>]

(* Passing an lvalue to a by-value parameter copies it: the caller keeps it. *)
PasoPorValor(v) == [arg |-> v, origen |-> v]

(* FiltroMensajes::FiltroMensajes: both members are moved from the parameters. *)
FiltroMensajes(mensajes, filtro) == [mensajes_ |-> mensajes, filtro_ |-> filtro]

InitE2 ==
    /\ prog = "m2e2"
    /\ pc = "L36"
    /\ \/ /\ modo = "main"
          /\ mem = [mensajes |-> MensajesMain, lambda1 |-> FiltroError,
                    lambda2 |-> FiltroInfo, soloErrores |-> Nada,
                    soloInfo |-> Nada, sobre |-> Nada, ret |-> Nada,
                    it |-> 0, extra |-> 0]
       \/ /\ modo = "general"
          /\ \E l \in ListasHasta(UniversoMensajes, MaxMensajes), f1, f2 \in Filtros :
                mem = [mensajes |-> l, lambda1 |-> f1, lambda2 |-> f2,
                       soloErrores |-> Nada, soloInfo |-> Nada, sobre |-> Nada,
                       ret |-> Nada, it |-> 0, extra |-> 0]

(* main, line 36: FiltroMensajes soloErrores(mensajes, lambda) *)
ConstruirSoloErrores ==
    /\ prog = "m2e2" /\ pc = "L36"
    /\ LET p == PasoPorValor(mem.mensajes)
       IN  mem' = [mem EXCEPT !.mensajes = p.origen,
                              !.soloErrores = FiltroMensajes(p.arg, mem.lambda1)]
    /\ pc' = "L40"
    /\ UNCHANGED <<prog, modo, out, hist>>

(* main, line 40 *)
CabeceraErrores ==
    /\ prog = "m2e2" /\ pc = "L40"
    /\ out' = out \o "Mensajes de error:" \o NL
    /\ pc' = "L41"
    /\ UNCHANGED <<prog, modo, mem, hist>>

(* Entering mostrarFiltrados on object o; the caller resumes at r. *)
EntrarMostrar(o, r) ==
    /\ mem' = [mem EXCEPT !.sobre = o, !.ret = r, !.it = 1]
    /\ hist' = Append(hist, [obj |-> o, lineas |-> <<>>])
    /\ pc' = "L13"
    /\ UNCHANGED <<prog, modo, out>>

(* main, line 41 *)
LlamarSoloErrores ==
    /\ prog = "m2e2" /\ pc = "L41"
    /\ EntrarMostrar("soloErrores", "L44")

(* Mutant: the if of line 14 is dropped; every message is printed. *)
ImprimeSiempre(filtro, mensaje) == TRUE

(* mostrarFiltrados, lines 13-17: one iteration of the range-for. *)
Imprime(filtro, mensaje) == filtro[mensaje]

MostrarPaso ==
    /\ prog = "m2e2" /\ pc = "L13"
    /\ LET yo == mem[mem.sobre]
       IN  /\ mem.it <= Len(yo.mensajes_)
           /\ LET mensaje == yo.mensajes_[mem.it]
              IN  IF Imprime(yo.filtro_, mensaje)
                  THEN /\ out' = out \o mensaje \o NL
                       /\ hist' = [hist EXCEPT ![Len(hist)].lineas =
                                       Append(@, mensaje)]
                  ELSE UNCHANGED <<out, hist>>
    /\ mem' = [mem EXCEPT !.it = @ + 1]
    /\ UNCHANGED <<prog, modo, pc>>

(* mostrarFiltrados, line 18: the loop is over, return to the caller. *)
MostrarFin ==
    /\ prog = "m2e2" /\ pc = "L13"
    /\ mem.it > Len(mem[mem.sobre].mensajes_)
    /\ pc' = mem.ret
    /\ mem' = [mem EXCEPT !.sobre = Nada, !.ret = Nada, !.it = 0]
    /\ UNCHANGED <<prog, modo, out, hist>>

(* main, line 44: FiltroMensajes soloInfo(mensajes, lambda) *)
ConstruirSoloInfo ==
    /\ prog = "m2e2" /\ pc = "L44"
    /\ LET p == PasoPorValor(mem.mensajes)
       IN  mem' = [mem EXCEPT !.mensajes = p.origen,
                              !.soloInfo = FiltroMensajes(p.arg, mem.lambda2)]
    /\ pc' = "L48"
    /\ UNCHANGED <<prog, modo, out, hist>>

(* main, line 48 *)
CabeceraInfo ==
    /\ prog = "m2e2" /\ pc = "L48"
    /\ out' = out \o NL \o "Mensajes informativos:" \o NL
    /\ pc' = "L49"
    /\ UNCHANGED <<prog, modo, mem, hist>>

(* main, line 49 *)
LlamarSoloInfo ==
    /\ prog = "m2e2" /\ pc = "L49"
    /\ EntrarMostrar("soloInfo", "L50")

(* General mode only: a further call on either filter before main returns. *)
LlamarOtraVez ==
    /\ prog = "m2e2" /\ pc = "L50" /\ modo = "general"
    /\ mem.extra < MaxLlamadas
    /\ \E o \in {"soloErrores", "soloInfo"} :
          /\ mem' = [mem EXCEPT !.sobre = o, !.ret = "L50", !.it = 1,
                                !.extra = @ + 1]
          /\ hist' = Append(hist, [obj |-> o, lineas |-> <<>>])
    /\ pc' = "L13"
    /\ UNCHANGED <<prog, modo, out>>

(* main, line 50: the closing brace destroys soloInfo, soloErrores, mensajes. *)
FinE2 ==
    /\ prog = "m2e2" /\ pc = "L50"
    /\ pc' = "done"
    /\ UNCHANGED <<prog, modo, out, mem, hist>>

NextE2 ==
    \/ ConstruirSoloErrores \/ CabeceraErrores \/ LlamarSoloErrores
    \/ MostrarPaso \/ MostrarFin
    \/ ConstruirSoloInfo \/ CabeceraInfo \/ LlamarSoloInfo
    \/ LlamarOtraVez \/ FinE2

(***************************************************************************)
(* Arithmetic on int.  An operation whose mathematical result does not fit *)
(* (or a division by zero) is undefined behaviour: the build may trap or   *)
(* leave any value.  Each operator yields the set of possible outcomes.    *)
(***************************************************************************)
Valor(v) == [trap |-> FALSE, v |-> v]     \* the operation yields v
Trap == [trap |-> TRUE, v |-> 0]          \* the process is killed (SIGFPE)

Indefinido == {Valor(u) : u \in UBInts} \cup {Trap}

SumaCabe(a, b) == IF b >= 0 THEN a <= INT_MAX - b ELSE a >= INT_MIN - b
RestaCabe(a, b) == IF b >= 0 THEN a >= INT_MIN + b ELSE a <= INT_MAX + b

(* a * b is in INT_MIN..INT_MAX, decided without leaving that range. *)
ProductoCabe(a, b) ==
    IF a = 0 \/ b = 0 THEN TRUE
    ELSE IF a = INT_MIN THEN b = 1
    ELSE IF b = INT_MIN THEN a = 1
    ELSE IF (a < 0) = (b < 0) THEN Abs(a) <= INT_MAX \div Abs(b)
    ELSE \/ Abs(a) <= INT_MAX \div Abs(b)
         \/ /\ (INT_MAX - Abs(b) + 1) % Abs(b) = 0       \* |a| * |b| = 2^31
            /\ (INT_MAX - Abs(b) + 1) \div Abs(b) + 1 = Abs(a)

SumaInt(a, b) == IF SumaCabe(a, b) THEN {Valor(a + b)} ELSE Indefinido
RestaInt(a, b) == IF RestaCabe(a, b) THEN {Valor(a - b)} ELSE Indefinido
ProductoInt(a, b) == IF ProductoCabe(a, b) THEN {Valor(a * b)} ELSE Indefinido

(* a % b of C++: the remainder of the division truncated toward zero. *)
RestoTruncado(a, b) ==
    IF b = INT_MIN THEN (IF a = INT_MIN THEN 0 ELSE a)
    ELSE LET m == a % Abs(b)
         IN  IF a >= 0 \/ m = 0 THEN m ELSE m - Abs(b)

RestoInt(a, b) ==
    IF b = 0 \/ (a = INT_MIN /\ b = -1) THEN Indefinido
    ELSE {Valor(RestoTruncado(a, b))}

(***************************************************************************)
(* modulo2/ejercicio3.cpp : aplicar_operacion                              *)
(***************************************************************************)
EnterosE3 == {INT_MIN, -7, 0, 5, 10, INT_MAX}

(* The closures of main, lines 13-15, 18-20, 23-25. *)
Operacion(op, a, b) ==
    CASE op = "suma" -> SumaInt(a, b)
      [] op = "resta" -> RestaInt(a, b)
      [] op = "producto" -> ProductoInt(a, b)

(* An invocation of the callable: what it was given and what it may return. *)
Invocar(op, a, b) == [op |-> op, a |-> a, b |-> b, res |-> Operacion(op, a, b)]

(* Mutant: the arguments reach the callable swapped. *)
aplicar_operacion_invertida(a, b, operacion) == Invocar(operacion, b, a)

(* lines 4-6 *)
aplicar_operacion(a, b, operacion) == Invocar(operacion, a, b)

InitE3 ==
    /\ prog = "m2e3"
    /\ pc = "L13"
    /\ \/ /\ modo = "main"
          /\ mem = [x |-> 10, y |-> 5, suma |-> Nada, resta |-> Nada,
                    producto |-> Nada]
       \/ /\ modo = "general"
          /\ \E a, b \in EnterosE3 :
                mem = [x |-> a, y |-> b, suma |-> Nada, resta |-> Nada,
                       producto |-> Nada]

(* One statement  int v = aplicar_operacion(x, y, op);  at pc = desde. *)
Asignar(desde, op, hasta) ==
    /\ prog = "m2e3" /\ pc = desde
    /\ LET c == aplicar_operacion(mem.x, mem.y, op)
       IN  \E r \in c.res :
              /\ hist' = Append(hist, [op |-> c.op, a |-> c.a, b |-> c.b, ret |-> r])
              /\ IF r.trap
                 THEN pc' = "abortado" /\ mem' = mem
                 ELSE pc' = hasta /\ mem' = [mem EXCEPT ![op] = r.v]
    /\ UNCHANGED <<prog, modo, out>>

AsignarSuma == Asignar("L13", "suma", "L18")
AsignarResta == Asignar("L18", "resta", "L23")
AsignarProducto == Asignar("L23", "producto", "L27")

(* One statement  std::cout << etiqueta << v << '\n';  at pc = desde. *)
ImprimirE3(desde, etiqueta, v, hasta) ==
    /\ prog = "m2e3" /\ pc = desde
    /\ out' = out \o etiqueta \o Decimal(v) \o NL
    /\ pc' = hasta
    /\ UNCHANGED <<prog, modo, mem, hist>>

ImprimirSuma == ImprimirE3("L27", "Suma: ", mem.suma, "L28")
ImprimirResta == ImprimirE3("L28", "Resta: ", mem.resta, "L29")
ImprimirProducto == ImprimirE3("L29", "Producto: ", mem.producto, "done")

NextE3 ==
    \/ AsignarSuma \/ AsignarResta \/ AsignarProducto
    \/ ImprimirSuma \/ ImprimirResta \/ ImprimirProducto

(***************************************************************************)
(* modulo2/ejercicio4.cpp : FiltroMultiplo                                 *)
(***************************************************************************)
NumerosMain == <<3, 4, 5, 6, 7, 8, 9, 10, 12>>
ValoresE4 == {INT_MIN, -6, -4, 0, 5, 9}
Divisores == {-3, -1, 0, 2, 3}

(* line 6 *)
FiltroMultiplo(divisor) == [divisor_ |-> divisor]

(* Mutant: the constructor leaves divisor_ uninitialised; any divisor is read. *)
EsMultiploSinInicializar(yo, valor) ==
    {[trap |-> r.trap, v |-> (~r.trap /\ r.v = 0)] :
        r \in UNION {RestoInt(valor, d) : d \in Divisores}}

(* lines 8-10: valor % divisor_ == 0, or what the undefined % leaves. *)
EsMultiplo(yo, valor) ==
    {[trap |-> r.trap, v |-> (~r.trap /\ r.v = 0)] :
        r \in RestoInt(valor, yo.divisor_)}

InitE4 ==
    /\ prog = "m2e4"
    /\ pc = "L20"
    /\ \/ /\ modo = "main"
          /\ mem = [numeros |-> NumerosMain, divisor |-> 3,
                    esMultiploDe3 |-> Nada, it |-> 0]
       \/ /\ modo = "general"
          /\ \E l \in ListasHasta(ValoresE4, MaxNumeros), d \in Divisores :
                mem = [numeros |-> l, divisor |-> d, esMultiploDe3 |-> Nada,
                       it |-> 0]

(* main, line 20 *)
ConstruirFiltroMultiplo ==
    /\ prog = "m2e4" /\ pc = "L20"
    /\ mem' = [mem EXCEPT !.esMultiploDe3 = FiltroMultiplo(mem.divisor)]
    /\ pc' = "L22"
    /\ UNCHANGED <<prog, modo, out, hist>>

(* main, line 22 *)
CabeceraMultiplos ==
    /\ prog = "m2e4" /\ pc = "L22"
    /\ out' = out \o "Mu'ltiplos de 3 (functora): "
    /\ mem' = [mem EXCEPT !.it = 1]
    /\ pc' = "L23"
    /\ UNCHANGED <<prog, modo, hist>>

(* main, lines 23-27: one iteration of the range-for. *)
MultiplosPaso ==
    /\ prog = "m2e4" /\ pc = "L23"
    /\ mem.it <= Len(mem.numeros)
    /\ LET n == mem.numeros[mem.it]
       IN  \E r \in EsMultiplo(mem.esMultiploDe3, n) :
              /\ hist' = Append(hist, [valor |-> n,
                                       divisor |-> mem.esMultiploDe3.divisor_,
                                       res |-> r])
              /\ IF r.trap
                 THEN pc' = "abortado" /\ UNCHANGED <<out, mem>>
                 ELSE /\ out' = IF r.v THEN out \o Decimal(n) \o " " ELSE out
                      /\ mem' = [mem EXCEPT !.it = @ + 1]
                      /\ pc' = pc
    /\ UNCHANGED <<prog, modo>>

(* main, line 28 *)
MultiplosFin ==
    /\ prog = "m2e4" /\ pc = "L23"
    /\ mem.it > Len(mem.numeros)
    /\ out' = out \o NL
    /\ pc' = "done"
    /\ UNCHANGED <<prog, modo, mem, hist>>

NextE4 ==
    \/ ConstruirFiltroMultiplo \/ CabeceraMultiplos
    \/ MultiplosPaso \/ MultiplosFin

(***************************************************************************)
(* modulo4/ejercicio1.cpp : Configuracion                                  *)
(* mem.objetos is the set of Configuracion objects alive; mem.cfg is the   *)
(* identity of main's cfg.  The prvalue returned by the factory            *)
(* initialises cfg itself: the copy constructor is deleted, so the program *)
(* only builds where no temporary is materialised.                         *)
(***************************************************************************)
(* Mutant: the constructor does not initialise parametros_ from p. *)
ConfiguracionVacia(p) == [parametros_ |-> ""]

(* line 9: the private constructor *)
Configuracion(p) == [parametros_ |-> p]

(* Mutant: mostrar prints the label and drops the stored data. *)
TextoMostrarSinDatos(yo) == "Para'metros: " \o NL

(* lines 13-15 *)
TextoMostrar(yo) == "Para'metros: " \o yo.parametros_ \o NL

(* line 24 *)
DatosSimulados == "modo=produccion;cache=true"

InitM1 ==
    /\ prog = "m4e1"
    /\ modo = "main"
    /\ pc = "L34"
    /\ mem = [datosSimulados |-> Nada, cfg |-> Nada, objetos |-> {}, creados |-> 0]

(* main, line 34: the call enters cargarDesdeArchivo. *)
LlamarCargar ==
    /\ prog = "m4e1" /\ pc = "L34"
    /\ pc' = "L24"
    /\ UNCHANGED <<prog, modo, out, mem, hist>>

(* cargarDesdeArchivo, line 24 *)
CargarDatos ==
    /\ prog = "m4e1" /\ pc = "L24"
    /\ mem' = [mem EXCEPT !.datosSimulados = DatosSimulados]
    /\ pc' = "L25"
    /\ UNCHANGED <<prog, modo, out, hist>>

(* cargarDesdeArchivo, line 25 *)
CargarAviso ==
    /\ prog = "m4e1" /\ pc = "L25"
    /\ out' = out \o "Cargando configuracio'n desde archivo..." \o NL
    /\ pc' = "L26"
    /\ UNCHANGED <<prog, modo, mem, hist>>

(* cargarDesdeArchivo, line 26: construct the result in cfg and return. *)
CargarDevolver ==
    /\ prog = "m4e1" /\ pc = "L26"
    /\ LET id == mem.creados + 1
           o == [id |-> id, creador |-> "cargarDesdeArchivo",
                 estado |-> Configuracion(mem.datosSimulados)]
       IN  mem' = [mem EXCEPT !.objetos = @ \cup {o}, !.creados = id,
                              !.cfg = id, !.datosSimulados = Nada]
    /\ hist' = Append(hist, "cargarDesdeArchivo")
    /\ pc' = "L35"
    /\ UNCHANGED <<prog, modo, out>>

(* main, line 35: cfg.mostrar() *)
Mostrar ==
    /\ prog = "m4e1" /\ pc = "L35"
    /\ \E o \in mem.objetos :
          /\ o.id = mem.cfg
          /\ out' = out \o TextoMostrar(o.estado)
    /\ hist' = Append(hist, "mostrar")
    /\ pc' = "L38"
    /\ UNCHANGED <<prog, modo, mem>>

(* main, line 38: the closing brace destroys cfg. *)
FinM1 ==
    /\ prog = "m4e1" /\ pc = "L38"
    /\ mem' = [mem EXCEPT !.objetos = {o \in @ : o.id # mem.cfg}, !.cfg = Nada]
    /\ pc' = "done"
    /\ UNCHANGED <<prog, modo, out, hist>>

NextM1 ==
    \/ LlamarCargar \/ CargarDatos \/ CargarAviso \/ CargarDevolver
    \/ Mostrar \/ FinM1

(***************************************************************************)
(* Virtual dispatch: an object held through a pointer to its interface     *)
(* carries its dynamic type; a virtual call runs that class's override.    *)
(***************************************************************************)
MakeUnique(clase) == [clase |-> clase]

(* Mutant: the call binds to the other class of the hierarchy. *)
DespachoCruzado(objeto) ==
    CASE objeto.clase = "Piano" -> "Guitarra"
      [] objeto.clase = "Guitarra" -> "Piano"
      [] objeto.clase = "Radio" -> "Televisor"
      [] objeto.clase = "Televisor" -> "Radio"
      [] OTHER -> objeto.clase

Despacho(objeto) == objeto.clase

(***************************************************************************)
(* modulo4/ejercicio2.cpp : Instrumento, Piano, Guitarra                   *)
(***************************************************************************)
ClasesInstrumento == {"Piano", "Guitarra"}

(* lines 15-17 and 23-25: the body of each override of tocar. *)
Tocar(clase) ==
    CASE clase = "Piano" -> "El piano toca una melodi'a cla'sica." \o NL
      [] clase = "Guitarra" -> "La guitarra toca un solo de rock." \o NL

InitM2 ==
    /\ prog = "m4e2"
    /\ pc = "L33"
    /\ \/ /\ modo = "main"
          /\ mem = [clases |-> <<"Piano", "Guitarra">>, orquesta |-> <<>>, it |-> 0]
       \/ /\ modo = "general"
          /\ \E l \in ListasHasta(ClasesInstrumento, MaxObjetos) :
                mem = [clases |-> l, orquesta |-> <<>>, it |-> 0]

(* main, lines 33-34: orquesta.push_back(std::make_unique<C>()) *)
PushBackOrquesta ==
    /\ prog = "m4e2" /\ pc = "L33"
    /\ Len(mem.orquesta) < Len(mem.clases)
    /\ mem' = [mem EXCEPT !.orquesta =
                   Append(@, MakeUnique(mem.clases[Len(mem.orquesta) + 1]))]
    /\ UNCHANGED <<prog, modo, pc, out, hist>>

(* main, line 37: the range-for begins. *)
EmpezarOrquesta ==
    /\ prog = "m4e2" /\ pc = "L33"
    /\ Len(mem.orquesta) = Len(mem.clases)
    /\ mem' = [mem EXCEPT !.it = 1]
    /\ pc' = "L37"
    /\ UNCHANGED <<prog, modo, out, hist>>

(* main, lines 37-39: instrumento->tocar() *)
TocarPaso ==
    /\ prog = "m4e2" /\ pc = "L37"
    /\ mem.it <= Len(mem.orquesta)
    /\ LET c == Despacho(mem.orquesta[mem.it])
       IN  /\ out' = out \o Tocar(c)
           /\ hist' = Append(hist, [elemento |-> mem.it, corre |-> c])
    /\ mem' = [mem EXCEPT !.it = @ + 1]
    /\ UNCHANGED <<prog, modo, pc>>

(* main, lines 41-42 *)
FinM2 ==
    /\ prog = "m4e2" /\ pc = "L37"
    /\ mem.it > Len(mem.orquesta)
    /\ mem' = [mem EXCEPT !.orquesta = <<>>]
    /\ pc' = "done"
    /\ UNCHANGED <<prog, modo, out, hist>>

NextM2 == PushBackOrquesta \/ EmpezarOrquesta \/ TocarPaso \/ FinM2

(***************************************************************************)
(* modulo4/ejercicio3.cpp : Reproducible, Radio, Televisor                 *)
(***************************************************************************)
ClasesReproducible == {"Radio", "Televisor"}

(* lines 15-17 and 23-25: the body of each override of reproducir. *)
Reproducir(clase) ==
    CASE clase = "Radio" -> "Reproduciendo mu'sica en la radio" \o NL
      [] clase = "Televisor" -> "Reproduciendo sonido del televisor" \o NL

InitM3 ==
    /\ prog = "m4e3"
    /\ pc = "L38"
    /\ \/ /\ modo = "main"
          /\ mem = [clases |-> <<"Radio", "Televisor">>, aparatos |-> <<>>, it |-> 0]
       \/ /\ modo = "general"
          /\ \E l \in ListasHasta(ClasesReproducible, MaxObjetos) :
                mem = [clases |-> l, aparatos |-> <<>>, it |-> 0]

(* main, lines 38-39: aparatos.push_back(std::make_unique<C>()) *)
PushBackAparatos ==
    /\ prog = "m4e3" /\ pc = "L38"
    /\ Len(mem.aparatos) < Len(mem.clases)
    /\ mem' = [mem EXCEPT !.aparatos =
                   Append(@, MakeUnique(mem.clases[Len(mem.aparatos) + 1]))]
    /\ UNCHANGED <<prog, modo, pc, out, hist>>

(* main, line 41: iniciarReproduccion(aparatos); dispositivos refers to aparatos. *)
LlamarIniciar ==
    /\ prog = "m4e3" /\ pc = "L38"
    /\ Len(mem.aparatos) = Len(mem.clases)
    /\ mem' = [mem EXCEPT !.it = 1]
    /\ pc' = "L30"
    /\ UNCHANGED <<prog, modo, out, hist>>

(* iniciarReproduccion, lines 30-32: dispositivo->reproducir() *)
ReproducirPaso ==
    /\ prog = "m4e3" /\ pc = "L30"
    /\ mem.it <= Len(mem.aparatos)
    /\ LET c == Despacho(mem.aparatos[mem.it])
       IN  /\ out' = out \o Reproducir(c)
           /\ hist' = Append(hist, [elemento |-> mem.it, corre |-> c])
    /\ mem' = [mem EXCEPT !.it = @ + 1]
    /\ UNCHANGED <<prog, modo, pc>>

(* iniciarReproduccion returns (line 33) and main returns (lines 43-44). *)
FinM3 ==
    /\ prog = "m4e3" /\ pc = "L30"
    /\ mem.it > Len(mem.aparatos)
    /\ mem' = [mem EXCEPT !.aparatos = <<>>]
    /\ pc' = "done"
    /\ UNCHANGED <<prog, modo, out, hist>>

NextM3 == PushBackAparatos \/ LlamarIniciar \/ ReproducirPaso \/ FinM3

(***************************************************************************)
(* modulo4/ejercicio4 : Calculadora, CalculadoraMultiplicacion             *)
(***************************************************************************)
EnterosM4 == {INT_MIN, -7, -1, 0, 6, 7, 46341, INT_MAX}

(* Mutant: the override adds instead of multiplying. *)
CalculadoraSuma_calcular(a, b) == SumaInt(a, b)

(* CalculadoraMultiplicacion.h, lines 6-8 *)
CalculadoraMultiplicacion_calcular(a, b) == ProductoInt(a, b)

(* Calculadora.h, line 5: the pure virtual, resolved on the dynamic type. *)
Calcular(objeto, a, b) ==
    CASE Despacho(objeto) = "CalculadoraMultiplicacion" ->
             CalculadoraMultiplicacion_calcular(a, b)

InitM4 ==
    /\ prog = "m4e4"
    /\ pc = "L10"
    /\ \/ /\ modo = "main"
          /\ mem = [a |-> 6, b |-> 7, calc |-> Nada, resultado |-> Nada]
       \/ /\ modo = "general"
          /\ \E a, b \in EnterosM4 :
                mem = [a |-> a, b |-> b, calc |-> Nada, resultado |-> Nada]

(* main.cpp, line 10 *)
CrearCalc ==
    /\ prog = "m4e4" /\ pc = "L10"
    /\ mem' = [mem EXCEPT !.calc = MakeUnique("CalculadoraMultiplicacion")]
    /\ pc' = "L12"
    /\ UNCHANGED <<prog, modo, out, hist>>

(* main.cpp, line 12: int resultado = calc->calcular(a, b) *)
LlamarCalcular ==
    /\ prog = "m4e4" /\ pc = "L12"
    /\ \E r \in Calcular(mem.calc, mem.a, mem.b) :
          /\ hist' = Append(hist, [corre |-> Despacho(mem.calc), a |-> mem.a,
                                   b |-> mem.b, ret |-> r])
          /\ IF r.trap
             THEN pc' = "abortado" /\ mem' = mem
             ELSE pc' = "L13" /\ mem' = [mem EXCEPT !.resultado = r.v]
    /\ UNCHANGED <<prog, modo, out>>

(* main.cpp, line 13 *)
ImprimirResultado ==
    /\ prog = "m4e4" /\ pc = "L13"
    /\ out' = out \o "Resultado: " \o Decimal(mem.resultado) \o NL
    /\ pc' = "L15"
    /\ UNCHANGED <<prog, modo, mem, hist>>

(* main.cpp, lines 15-16: return 0 destroys calc. *)
FinM4 ==
    /\ prog = "m4e4" /\ pc = "L15"
    /\ mem' = [mem EXCEPT !.calc = Nada]
    /\ pc' = "done"
    /\ UNCHANGED <<prog, modo, out, hist>>

NextM4 == CrearCalc \/ LlamarCalcular \/ ImprimirResultado \/ FinM4

Init ==
    /\ out = ""
    /\ hist = <<>>
    /\ \/ InitE2
       \/ InitE3
       \/ InitE4
       \/ InitM1
       \/ InitM2
       \/ InitM3
       \/ InitM4

Next ==
    \/ NextE2
    \/ NextE3
    \/ NextE4
    \/ NextM1
    \/ NextM2
    \/ NextM3
    \/ NextM4

Spec == Init /\ [][Next]_vars

(***************************************************************************)
(*                              Properties                                 *)
(***************************************************************************)
RECURSIVE Lineas(_)
Lineas(l) == IF l = <<>> THEN "" ELSE Head(l) \o NL \o Lineas(Tail(l))

RECURSIVE LineasDesde(_, _)
LineasDesde(h, k) ==     \* the lines of the calls h[k], h[k+1], ...
    IF k > Len(h) THEN "" ELSE Lineas(h[k].lineas) \o LineasDesde(h, k + 1)

(* The k-th call of mostrarFiltrados has returned. *)
LlamadaCompleta(k) == k < Len(hist) \/ pc # "L13"

(* The messages of object o, among its first n, that its predicate accepts. *)
Aceptados(o, n) == SelectSeq(SubSeq(o.mensajes_, 1, n), LAMBDA m : o.filtro_[m])

SalidaMainE2 ==
    "Mensajes de error:" \o NL
    \o "Error: conexio'n fallida" \o NL
    \o "Error: disco lleno" \o NL
    \o NL \o "Mensajes informativos:" \o NL
    \o "Info: actualizacio'n completada" \o NL
    \o "Info: sesio'n iniciada" \o NL

(* C1: for every message list and predicate, a call of mostrarFiltrados     *)
(* prints exactly the messages the predicate accepts, once per occurrence,  *)
(* in list order, and nothing else (while the call runs: those among the    *)
(* messages already visited); the stream is the two headers of main with    *)
(* those lines after them; with the literals of main the stream is the      *)
(* Error header, the two Error messages, the Info header and the two Info   *)
(* messages, so 'Aviso: bateri'a baja' is printed by neither filter.         *)
C1_MostrarFiltrados ==
    prog = "m2e2" =>
      /\ \A k \in 1..Len(hist) :
            LET o == mem[hist[k].obj]
            IN  hist[k].lineas =
                    Aceptados(o, IF LlamadaCompleta(k) THEN Len(o.mensajes_)
                                 ELSE mem.it - 1)
      /\ Len(hist) >= 1 => hist[1].obj = "soloErrores"
      /\ Len(hist) >= 2 => hist[2].obj = "soloInfo"
      /\ out = (IF pc \in {"L36", "L40"} THEN "" ELSE "Mensajes de error:" \o NL)
               \o (IF Len(hist) >= 1 THEN Lineas(hist[1].lineas) ELSE "")
               \o (IF Len(hist) >= 2 \/ pc = "L49"
                   THEN NL \o "Mensajes informativos:" \o NL ELSE "")
               \o LineasDesde(hist, 2)
      /\ (modo = "main" /\ pc = "done") => out = SalidaMainE2

C1_Witness ==
    /\ prog = "m2e2" /\ modo = "main" /\ pc = "done"
    /\ hist[1].lineas = <<"Error: conexio'n fallida", "Error: disco lleno">>
    /\ hist[2].lineas = <<"Info: actualizacio'n completada", "Info: sesio'n iniciada">>

(* Each filter holds its own copy of main's list and its own predicate; two *)
(* completed calls on the same filter printed the same lines.               *)
C10_Copias ==
    prog = "m2e2" =>
      /\ modo = "main" => mem.mensajes = MensajesMain
      /\ mem.soloErrores # Nada =>
            /\ mem.soloErrores.mensajes_ = mem.mensajes
            /\ mem.soloErrores.filtro_ = mem.lambda1
      /\ mem.soloInfo # Nada =>
            /\ mem.soloInfo.mensajes_ = mem.mensajes
            /\ mem.soloInfo.filtro_ = mem.lambda2
      /\ \A j, k \in 1..Len(hist) :
            (hist[j].obj = hist[k].obj /\ LlamadaCompleta(j) /\ LlamadaCompleta(k))
                => hist[j].lineas = hist[k].lineas

(* No step changes main's mensajes; no step of mostrarFiltrados changes a   *)
(* filter.                                                                  *)
C10_Paso ==
    prog = "m2e2" =>
      /\ mem'.mensajes = mem.mensajes
      /\ pc = "L13" => /\ mem'.soloErrores = mem.soloErrores
                       /\ mem'.soloInfo = mem.soloInfo

(* C10: mostrarFiltrados changes neither the stored list nor the stored     *)
(* predicate of any filter, nor main's mensajes; each filter holds its own  *)
(* copy of main's list (the five messages, with the literals of main), so   *)
(* after any sequence of calls the three lists are what they were and a     *)
(* repeated call prints the same lines again.                               *)
C10_Marco == [](C10_Copias) /\ [][C10_Paso]_vars

C10_Witness ==
    /\ prog = "m2e2" /\ pc = "L50" /\ Len(hist) = 3
    /\ Len(mem.mensajes) = MaxMensajes
    /\ Len(hist[3].lineas) > 0

(* The k-th evaluation of FiltroMultiplo::operator() gave a boolean and the *)
(* boolean says whether valor is an integer multiple of divisor.            *)
DiceSiEsMultiplo(e) ==
    /\ ~e.res.trap
    /\ e.res.v = (e.valor % Abs(e.divisor) = 0)

SalidaMainE4 == "Mu'ltiplos de 3 (functora): 3 6 9 12 " \o NL

(* C2: with the literals of main the functor example prints 3, 6, 9, 12 in  *)
(* that order; for every non-zero divisor d and every value v,              *)
(* FiltroMultiplo(d)(v) is true exactly when v is an integer multiple of d. *)
C2_Multiplos ==
    prog = "m2e4" =>
      /\ (modo = "main" /\ pc = "done") => out = SalidaMainE4
      /\ \A k \in 1..Len(hist) :
            hist[k].divisor # 0 => DiceSiEsMultiplo(hist[k])

(* The part of C2 the code keeps: main's output, and the general statement  *)
(* wherever valor % divisor_ is defined.                                    *)
MultiplosDondeDefinido ==
    prog = "m2e4" =>
      /\ (modo = "main" /\ pc = "done") => out = SalidaMainE4
      /\ \A k \in 1..Len(hist) :
            (hist[k].divisor # 0 /\ ~(hist[k].valor = INT_MIN /\ hist[k].divisor = -1))
                => DiceSiEsMultiplo(hist[k])

(* C9: FiltroMultiplo::operator() gives a boolean, and the process is not   *)
(* killed, for every value and every divisor the constructor accepts.       *)
C9_SinFallo ==
    prog = "m2e4" =>
      /\ pc # "abortado"
      /\ \A k \in 1..Len(hist) : ~hist[k].res.trap

OrdenOps == <<"suma", "resta", "producto">>

(* The statements  int v = aplicar_operacion(x, y, op)  that have completed. *)
Asignadas == IF pc = "abortado" THEN Len(hist) - 1 ELSE Len(hist)

Exacto(op, a, b) ==
    CASE op = "suma" -> SumaCabe(a, b) => (mem.suma = a + b)
      [] op = "resta" -> RestaCabe(a, b) => (mem.resta = a - b)
      [] op = "producto" -> ProductoCabe(a, b) => (mem.producto = a * b)

SalidaMainE3 == "Suma: 15" \o NL \o "Resta: 5" \o NL \o "Producto: 50" \o NL

(* C3: each call aplicar_operacion(x, y, op) invokes op exactly once, with  *)
(* (x, y) in that order, and the variable receives what op returned, which  *)
(* is x + y, x - y, x * y whenever that fits an int; with x = 10, y = 5 the *)
(* program prints Suma: 15, Resta: 5, Producto: 50 in that order.           *)
C3_AplicarOperacion ==
    prog = "m2e3" =>
      /\ Len(hist) = (CASE pc = "L13" -> 0
                        [] pc = "L18" -> 1
                        [] pc = "L23" -> 2
                        [] pc = "abortado" -> Len(hist)
                        [] OTHER -> 3)
      /\ Len(hist) <= 3
      /\ \A k \in 1..Len(hist) :
            /\ hist[k].op = OrdenOps[k]
            /\ hist[k].a = mem.x
            /\ hist[k].b = mem.y
      /\ \A k \in 1..Asignadas :
            /\ ~hist[k].ret.trap
            /\ mem[OrdenOps[k]] = hist[k].ret.v
            /\ Exacto(OrdenOps[k], mem.x, mem.y)
      /\ (modo = "main" /\ pc = "L27") =>
            (mem.suma = 15 /\ mem.resta = 5 /\ mem.producto = 50)
      /\ (modo = "main" /\ pc = "done") => out = SalidaMainE3

C3_Witness ==
    /\ prog = "m2e3" /\ modo = "main" /\ pc = "done"
    /\ mem.resta = 5 /\ Len(hist) = 3

ParametrosMain == "modo=produccion;cache=true"

(* C4: from the return of cargarDesdeArchivo to the end of main there is    *)
(* exactly one Configuracion object, it is cfg, the factory created it, and *)
(* its parametros_ is 'modo=produccion;cache=true' (mostrar leaves it so);  *)
(* before the factory returns there is none.                                *)
C4_UnaConfiguracion ==
    prog = "m4e1" =>
      /\ pc \in {"L34", "L24", "L25", "L26"} => mem.objetos = {}
      /\ pc \in {"L35", "L38"} =>
            /\ Cardinality(mem.objetos) = 1
            /\ \A o \in mem.objetos :
                  /\ o.id = mem.cfg
                  /\ o.creador = "cargarDesdeArchivo"
                  /\ o.estado.parametros_ = ParametrosMain
      /\ mem.creados <= 1

C4_Witness ==
    /\ prog = "m4e1" /\ pc = "L38"
    /\ \E o \in mem.objetos : o.estado.parametros_ = ParametrosMain
    /\ hist = <<"cargarDesdeArchivo", "mostrar">>

AvisoCarga == "Cargando configuracio'n desde archivo..." \o NL
LineaParametros == "Para'metros: modo=produccion;cache=true" \o NL

(* C8: the stream is empty until the factory prints 'Cargando ...', is that *)
(* line alone until mostrar runs, and is that line followed by              *)
(* 'Para'metros: modo=produccion;cache=true' from then on; mostrar runs only *)
(* at a point where cargarDesdeArchivo has returned the object it is called *)
(* on.                                                                      *)
C8_OrdenSalida ==
    prog = "m4e1" =>
      /\ pc \in {"L34", "L24", "L25"} => out = ""
      /\ pc \in {"L26", "L35"} => out = AvisoCarga
      /\ pc \in {"L38", "done"} => out = AvisoCarga \o LineaParametros
      /\ hist \in {<<>>, <<"cargarDesdeArchivo">>, <<"cargarDesdeArchivo", "mostrar">>}
      /\ pc = "L35" => \E o \in mem.objetos :
                          o.id = mem.cfg /\ o.creador = "cargarDesdeArchivo"

C8_Witness ==
    /\ prog = "m4e1" /\ pc = "done"
    /\ out = AvisoCarga \o LineaParametros

(* The text of the override of each class. *)
Override(clase) ==
    IF clase \in ClasesInstrumento THEN Tocar(clase) ELSE Reproducir(clase)

RECURSIVE Textos(_, _)
Textos(clases, n) ==     \* the lines of the overrides of the first n classes
    IF n = 0 THEN "" ELSE Textos(clases, n - 1) \o Override(clases[n])

SalidaMainM2 ==
    "El piano toca una melodi'a cla'sica." \o NL \o "La guitarra toca un solo de rock." \o NL
SalidaMainM3 ==
    "Reproduciendo mu'sica en la radio" \o NL \o "Reproduciendo sonido del televisor" \o NL

(* C5: for every collection, the loop makes one virtual call per element,   *)
(* in insertion order, each running the override of the element's class;    *)
(* the orchestra prints the Piano line then the Guitarra line, and          *)
(* iniciarReproduccion the Radio line then the Televisor line.              *)
C5_Despacho ==
    prog \in {"m4e2", "m4e3"} =>
      /\ Len(hist) = (CASE pc \in {"L33", "L38"} -> 0
                        [] pc \in {"L37", "L30"} -> mem.it - 1
                        [] OTHER -> Len(mem.clases))
      /\ \A k \in 1..Len(hist) :
            hist[k] = [elemento |-> k, corre |-> mem.clases[k]]
      /\ out = Textos(mem.clases, Len(hist))
      /\ (modo = "main" /\ pc = "done") =>
            out = (IF prog = "m4e2" THEN SalidaMainM2 ELSE SalidaMainM3)

C5_Witness ==
    /\ prog = "m4e3" /\ modo = "main" /\ pc = "done"
    /\ hist = << [elemento |-> 1, corre |-> "Radio"],
                 [elemento |-> 2, corre |-> "Televisor"] >>

(* C6: calcular(a, b) through the Calculadora pointer runs the override of  *)
(* CalculadoraMultiplicacion once and returns a * b whenever the product    *)
(* fits a 32-bit int; calcular(6, 7) makes the program print Resultado: 42. *)
C6_Producto ==
    prog = "m4e4" =>
      /\ pc \in {"L13", "L15", "done"} =>
            /\ Len(hist) = 1
            /\ hist[1].corre = "CalculadoraMultiplicacion"
            /\ hist[1].a = mem.a /\ hist[1].b = mem.b
            /\ ProductoCabe(mem.a, mem.b) => mem.resultado = mem.a * mem.b
      /\ ProductoCabe(mem.a, mem.b) => pc # "abortado"
      /\ (modo = "main" /\ pc \in {"L15", "done"}) => out = "Resultado: 42" \o NL

C6_Witness ==
    /\ prog = "m4e4" /\ modo = "main" /\ pc = "done"
    /\ mem.resultado = 42

Uno(b) == IF b THEN 1 ELSE 0

(* How many statements of the running program can execute next. *)
NumHabilitadas ==
    Uno(ENABLED ConstruirSoloErrores) + Uno(ENABLED CabeceraErrores)
    + Uno(ENABLED LlamarSoloErrores) + Uno(ENABLED MostrarPaso)
    + Uno(ENABLED MostrarFin) + Uno(ENABLED ConstruirSoloInfo)
    + Uno(ENABLED CabeceraInfo) + Uno(ENABLED LlamarSoloInfo)
    + Uno(ENABLED LlamarOtraVez) + Uno(ENABLED FinE2)
    + Uno(ENABLED AsignarSuma) + Uno(ENABLED AsignarResta)
    + Uno(ENABLED AsignarProducto) + Uno(ENABLED ImprimirSuma)
    + Uno(ENABLED ImprimirResta) + Uno(ENABLED ImprimirProducto)
    + Uno(ENABLED ConstruirFiltroMultiplo) + Uno(ENABLED CabeceraMultiplos)
    + Uno(ENABLED MultiplosPaso) + Uno(ENABLED MultiplosFin)
    + Uno(ENABLED LlamarCargar) + Uno(ENABLED CargarDatos)
    + Uno(ENABLED CargarAviso) + Uno(ENABLED CargarDevolver)
    + Uno(ENABLED Mostrar) + Uno(ENABLED FinM1)
    + Uno(ENABLED PushBackOrquesta) + Uno(ENABLED EmpezarOrquesta)
    + Uno(ENABLED TocarPaso) + Uno(ENABLED FinM2)
    + Uno(ENABLED PushBackAparatos) + Uno(ENABLED LlamarIniciar)
    + Uno(ENABLED ReproducirPaso) + Uno(ENABLED FinM3)
    + Uno(ENABLED CrearCalc) + Uno(ENABLED LlamarCalcular)
    + Uno(ENABLED ImprimirResultado) + Uno(ENABLED FinM4)

(* The outcomes the statement about to execute can have. *)
Alternativas ==
    CASE prog = "m2e3" /\ pc = "L13" -> aplicar_operacion(mem.x, mem.y, "suma").res
      [] prog = "m2e3" /\ pc = "L18" -> aplicar_operacion(mem.x, mem.y, "resta").res
      [] prog = "m2e3" /\ pc = "L23" -> aplicar_operacion(mem.x, mem.y, "producto").res
      [] prog = "m2e4" /\ pc = "L23" /\ mem.it <= Len(mem.numeros) ->
             EsMultiplo(mem.esMultiploDe3, mem.numeros[mem.it])
      [] prog = "m4e4" /\ pc = "L12" -> Calcular(mem.calc, mem.a, mem.b)
      [] OTHER -> {Valor(0)}

(* What each program, as written, prints in a complete run. *)
SalidaMain ==
    CASE prog = "m2e2" -> SalidaMainE2
      [] prog = "m2e3" -> SalidaMainE3
      [] prog = "m2e4" -> SalidaMainE4
      [] prog = "m4e1" -> AvisoCarga \o LineaParametros
      [] prog = "m4e2" -> SalidaMainM2
      [] prog = "m4e3" -> SalidaMainM3
      [] prog = "m4e4" -> "Resultado: 42" \o NL

Prefijo(s, t) == Len(s) <= Len(t) /\ SubSeq(t, 1, Len(s)) = s

(* C7: each program as written is deterministic.  In every state at most    *)
(* one statement can execute and it has a single outcome (no statement of   *)
(* a run has undefined behaviour, none kills the process), so the runs of a *)
(* program go through one sequence of states; what has been printed is      *)
(* always a prefix of one fixed text, and is that text when main returns.   *)
C7_Determinista ==
    modo = "main" =>
      /\ NumHabilitadas <= 1
      /\ Cardinality(Alternativas) = 1
      /\ pc # "abortado"
      /\ Prefijo(out, SalidaMain)
      /\ pc = "done" => out = SalidaMain
      /\ pc = "done" <=> NumHabilitadas = 0

C7_Witness ==
    /\ modo = "main" /\ prog = "m2e4" /\ pc = "done"
    /\ Len(hist) = Len(NumerosMain)
    /\ out = SalidaMainE4
=============================================================================
